---- MODULE Spec2Model ----
(***************************************************************************)
(* Model of src/FetchData.py: the Bitcoin exchange-inflow pipeline         *)
(*   fetch_cryptoquant_data -> parse_cryptoquant_data ->                   *)
(*   analyze_btc_inflow -> visualize_data, sequenced by main.              *)
(*                                                                         *)
(* Data conventions.                                                       *)
(*   - A JSON object is an ordered dict: a sequence of <<key, value>>      *)
(*     pairs with distinct keys.                                           *)
(*   - A DataFrame is [cols, rows, dtstr]: cols the ordered column names,  *)
(*     rows a sequence of functions from the column set to cells, dtstr    *)
(*     TRUE while the datetime column holds text (not datetime64).         *)
(*   - Times are integers in milliseconds since the epoch; a text          *)
(*     datetime "%Y-%m-%d %H:%M:%S" is the millisecond value truncated to  *)
(*     a whole second.  Metric cells are integers in units of 1e-5.        *)
(*   - NA is the missing cell (NaN / NaT).                                 *)
(***************************************************************************)
EXTENDS Integers, Sequences, FiniteSets, TLC

VARIABLES
    pc,          \* where the run is: a step of main, "done", or "<stage>_raised"
    start_date,  \* the two dates main passes to the Fetcher
    end_date,
    response,    \* what the network gave back to the one HTTP GET
    requests,    \* the query parameters of every GET made, in order
    data,        \* the Fetcher's return value
    df,          \* the frame
    analysis,    \* the Analyzer's return value
    files,       \* the files written
    dirs,        \* the directories created
    stdout,      \* the lines printed
    trace,       \* the steps of main's non-empty branch taken, in order
    arg          \* the argument of a stage that is called on its own

vars == <<pc, start_date, end_date, response, requests, data, df, analysis,
          files, dirs, stdout, trace, arg>>

-----------------------------------------------------------------------------
(* Bounds of the model *)

MaxDay == 1
MaxSrcRows == 2
MaxSrcCols == 2
MaxBodyLen == 3
MaxStrLen == 6
MaxRows == 6
MaxVal == 2

-----------------------------------------------------------------------------
(* Generic helpers *)

Range(s) == {s[i] : i \in DOMAIN s}

MinOf(S) == CHOOSE x \in S : \A y \in S : x <= y

MaxOf(S) == CHOOSE x \in S : \A y \in S : x >= y

SeqsUpTo(S, n) == UNION {[1..k -> S] : k \in 0..n}

-----------------------------------------------------------------------------
(* Columns and cells *)

NA == -1

numeric_columns == <<"inflow_mean", "inflow_mean_ma7", "inflow_top10", "inflow_total">>

time_columns == <<"datetime", "start_time">>

\* every key a record of the API may carry in the model: the six the
\* program knows and one it does not
AllColumns == time_columns \o numeric_columns \o <<"extra">>

EmptyFrame == [cols |-> <<>>, rows |-> <<>>, dtstr |-> FALSE]

\* a plausible slip: a frame tested by its row count (len(df) == 0)
DfEmpty_rows_only(t) == Len(t.rows) = 0

\* DataFrame.empty: true when either axis has length 0
DfEmpty(t) == Len(t.rows) = 0 \/ Len(t.cols) = 0

HasCol(t, c) == c \in Range(t.cols)

\* ordered-dict operations
HasKey(item, k) == \E i \in DOMAIN item : item[i][1] = k

Get(item, k) == item[CHOOSE i \in DOMAIN item : item[i][1] = k][2]

Put(item, k, v) ==
    IF HasKey(item, k)
    THEN [i \in DOMAIN item |-> IF item[i][1] = k THEN <<k, v>> ELSE item[i]]
    ELSE Append(item, <<k, v>>)

RECURSIVE AddKeys(_, _, _)
AddKeys(cols, item, i) ==
    IF i > Len(item) THEN cols
    ELSE AddKeys(IF item[i][1] \in Range(cols) THEN cols ELSE Append(cols, item[i][1]),
                 item, i + 1)

\* column order of pd.DataFrame(list of dicts): keys by first appearance
RECURSIVE ColumnsOf(_, _, _)
ColumnsOf(items, i, cols) ==
    IF i > Len(items) THEN cols
    ELSE ColumnsOf(items, i + 1, AddKeys(cols, items[i], 1))

\* pd.DataFrame(data_items) for a list of records: a key missing from a
\* record gives a missing cell
DataFrame(items) ==
    LET cols == ColumnsOf(items, 1, <<>>)
    IN  [cols  |-> cols,
         rows  |-> [i \in 1..Len(items) |->
                      [c \in Range(cols) |->
                         IF HasKey(items[i], c) THEN Get(items[i], c) ELSE NA]],
         dtstr |-> "datetime" \in Range(cols)]

\* pd.to_datetime(..., unit='ms') and pd.to_datetime(text): the instant in ms
to_datetime(v) == IF v = NA THEN NA ELSE v

\* .dt.strftime('%Y-%m-%d %H:%M:%S'): the text keeps whole seconds only
strftime(v) == IF v = NA THEN NA ELSE v - (v % 1000)

\* .round(4) on a value held in units of 1e-5 (round half to even)
round4(v) ==
    IF v = NA THEN NA
    ELSE LET q == v \div 10
             r == v % 10
         IN  IF r < 5 THEN 10 * q
             ELSE IF r > 5 THEN 10 * (q + 1)
             ELSE IF q % 2 = 0 THEN 10 * q ELSE 10 * (q + 1)

-----------------------------------------------------------------------------
(* Text input: a string is a sequence of tokens.  "{" and "}" are the     *)
(* braces, "," the separator, "s" a member "start_time": <ms>, "t" a      *)
(* member "inflow_total": <number>, "x" any other character.  A member's  *)
(* value is fixed by its position in the text, so that objects differ.    *)

Tokens == {"{", "}", "s", "t", ",", "x"}

IsBrace(ch) == ch = "{" \/ ch = "}"

IsMember(ch) == ch = "s" \/ ch = "t"

MemberKey(ch) == IF ch = "s" THEN "start_time" ELSE "inflow_total"

MemberValue(ch, p) == IF ch = "s" THEN p * 1500 ELSE p * 7

\* position of the first brace at or after i, 0 when there is none
RECURSIVE NextBrace(_, _)
NextBrace(text, i) ==
    IF i > Len(text) THEN 0
    ELSE IF IsBrace(text[i]) THEN i ELSE NextBrace(text, i + 1)

\* re.findall(r'\{[^{}]*\}', text): leftmost non-overlapping matches, each
\* given as <<first, last>> position
RECURSIVE findall(_, _, _)
findall(text, i, acc) ==
    IF i > Len(text) THEN acc
    ELSE IF text[i] = "{"
         THEN LET j == NextBrace(text, i + 1)
              IN  IF j # 0 /\ text[j] = "}"
                  THEN findall(text, j + 1, Append(acc, <<i, j>>))
                  ELSE findall(text, i + 1, acc)
         ELSE findall(text, i + 1, acc)

\* json.loads of text[i-1 .. to], a brace-delimited span, read left to
\* right from position i.  st is what the parser expects: "first" (a
\* member or the closing brace), "member", or "sep" (a comma or the
\* closing brace).  A repeated key keeps its place and takes the last value.
RECURSIVE loads_members(_, _, _, _, _)
loads_members(text, i, to, st, item) ==
    IF i = to
    THEN [ok |-> st # "member", item |-> item]
    ELSE IF st = "sep"
         THEN IF text[i] = ","
              THEN loads_members(text, i + 1, to, "member", item)
              ELSE [ok |-> FALSE, item |-> <<>>]
         ELSE IF IsMember(text[i])
              THEN loads_members(text, i + 1, to, "sep",
                                 Put(item, MemberKey(text[i]), MemberValue(text[i], i)))
              ELSE [ok |-> FALSE, item |-> <<>>]

json_loads(text, m) == loads_members(text, m[1] + 1, m[2], "first", <<>>)

\* a plausible slip: the first fragment that fails to parse ends the loop
RECURSIVE extract_items_break(_, _, _, _)
extract_items_break(text, matches, k, acc) ==
    IF k > Len(matches) THEN acc
    ELSE LET r == json_loads(text, matches[k])
         IN  IF r.ok THEN extract_items_break(text, matches, k + 1, Append(acc, r.item))
             ELSE acc

\* the loop of lines 59-64: append each match that parses, skip the others
RECURSIVE extract_items(_, _, _, _)
extract_items(text, matches, k, acc) ==
    IF k > Len(matches) THEN acc
    ELSE LET r == json_loads(text, matches[k])
         IN  extract_items(text, matches, k + 1,
                           IF r.ok THEN Append(acc, r.item) ELSE acc)

-----------------------------------------------------------------------------
(* Values passed between the stages *)

\* None, a mapping (with a "data" list, or with `scalars` scalar fields and
\* no "data"), a string, or a list of records
None == [kind |-> "none", hasData |-> FALSE, items |-> <<>>, text |-> <<>>, scalars |-> 0]

DictData(items) == [kind |-> "dict", hasData |-> TRUE, items |-> items, text |-> <<>>, scalars |-> 0]

DictNoData(n) == [kind |-> "dict", hasData |-> FALSE, items |-> <<>>, text |-> <<>>, scalars |-> n]

Str(text) == [kind |-> "str", hasData |-> FALSE, items |-> <<>>, text |-> text, scalars |-> 0]

List(items) == [kind |-> "list", hasData |-> FALSE, items |-> items, text |-> <<>>, scalars |-> 0]

-----------------------------------------------------------------------------
(* Normalizer: parse_cryptoquant_data *)

\* df[c] = <series>: a new column goes last, an existing one keeps its place
SetCol(t, c, vals) ==
    [t EXCEPT !.cols = IF c \in Range(t.cols) THEN t.cols ELSE Append(t.cols, c),
              !.rows = [i \in DOMAIN t.rows |->
                          [k \in Range(t.cols) \cup {c} |->
                             IF k = c THEN vals[i] ELSE t.rows[i][k]]]]

RECURSIVE round_columns(_, _)
round_columns(t, j) ==
    IF j > Len(numeric_columns) THEN t
    ELSE round_columns(IF HasCol(t, numeric_columns[j])
                       THEN SetCol(t, numeric_columns[j],
                                   [i \in DOMAIN t.rows |-> round4(t.rows[i][numeric_columns[j]])])
                       ELSE t, j + 1)

\* a plausible slip: the known columns are kept in the order of the source
available_columns_source_order(t) ==
    LET Known(c) == c \in Range(time_columns) \cup Range(numeric_columns)
    IN  SelectSeq(t.cols, Known)

\* lines 92-97: ordered_columns filtered by presence
available_columns(t) ==
    LET Present(c) == HasCol(t, c)
        ordered_columns == time_columns \o SelectSeq(numeric_columns, Present)
    IN  SelectSeq(ordered_columns, Present)

\* df[available_columns]
Project(t, cs) ==
    [cols  |-> cs,
     rows  |-> [i \in DOMAIN t.rows |-> [c \in Range(cs) |-> t.rows[i][c]]],
     dtstr |-> t.dtstr /\ "datetime" \in Range(cs)]

\* lines 76-101
build_frame(items) ==
    LET d0 == DataFrame(items)
        d1 == IF HasCol(d0, "start_time") THEN SetCol(d0, "start_time",
                          [i \in DOMAIN d0.rows |-> to_datetime(d0.rows[i]["start_time"])]) ELSE d0
        d2 == IF ~HasCol(d1, "datetime") /\ HasCol(d1, "start_time")
              THEN [SetCol(d1, "datetime",
                           [i \in DOMAIN d1.rows |-> strftime(d1.rows[i]["start_time"])])
                      EXCEPT !.dtstr = TRUE]
              ELSE d1
        d3 == round_columns(d2, 1)
    IN  Project(d3, available_columns(d3))

\* the whole function; raised is an exception leaving it
parse_cryptoquant_data(data_input) ==
    IF data_input.kind = "none"
    THEN [raised |-> FALSE, df |-> EmptyFrame, out |-> <<"No data to parse">>]
    ELSE IF data_input.kind = "dict" /\ ~data_input.hasData
    THEN \* data_items is the mapping itself: pd.DataFrame of scalar values raises
         IF data_input.scalars = 0
         THEN [raised |-> FALSE, df |-> EmptyFrame,
               out |-> <<"Processing data items from list", "No data items were found">>]
         ELSE [raised |-> TRUE, df |-> EmptyFrame, out |-> <<"Processing data items from list">>]
    ELSE LET data_items ==
                 IF data_input.kind = "str"
                 THEN extract_items(data_input.text, findall(data_input.text, 1, <<>>), 1, <<>>)
                 ELSE data_input.items
             said == IF data_input.kind = "dict" THEN "Parsing data items from complete response"
                     ELSE IF data_input.kind = "str" THEN "Extracted data items from string"
                     ELSE "Processing data items from list"
         IN  IF Len(data_items) = 0
             THEN [raised |-> FALSE, df |-> EmptyFrame, out |-> <<said, "No data items were found">>]
             ELSE [raised |-> FALSE, df |-> build_frame(data_items),
                   out |-> <<said, "Created DataFrame">>]

-----------------------------------------------------------------------------
(* Analyzer: analyze_btc_inflow *)

TopN == 5

NonNA(t, c) == {i \in DOMAIN t.rows : t.rows[i][c] # NA}

\* place of row i in the frame ordered by column c descending, rows with
\* equal values in their original order (keep='first'), missing cells last
Rank(t, c, i) ==
    LET v == t.rows[i][c]
    IN  IF v = NA
        THEN Cardinality(NonNA(t, c))
               + Cardinality({j \in 1..(i - 1) : t.rows[j][c] = NA}) + 1
        ELSE Cardinality({j \in NonNA(t, c) :
                            \/ t.rows[j][c] > v
                            \/ (t.rows[j][c] = v /\ j < i)}) + 1

\* df.nlargest(n, c): the row numbers of the first n rows of that order
nlargest(t, n, c) ==
    LET m == IF n < Len(t.rows) THEN n ELSE Len(t.rows)
    IN  [k \in 1..m |-> CHOOSE i \in DOMAIN t.rows : Rank(t, c, i) = k]

\* Series.min() / Series.max(): missing cells are skipped
ColMin(t, c) == IF NonNA(t, c) = {} THEN NA ELSE MinOf({t.rows[i][c] : i \in NonNA(t, c)})

ColMax(t, c) == IF NonNA(t, c) = {} THEN NA ELSE MaxOf({t.rows[i][c] : i \in NonNA(t, c)})

\* df[col].describe(), of which the model keeps count, min and max
describe(t, c) ==
    [count |-> Cardinality(NonNA(t, c)), min |-> ColMin(t, c), max |-> ColMax(t, c)]

NoResult ==
    [keys |-> {}, total_records |-> 0, start |-> NA, end |-> NA,
     summary_stats |-> <<>>, top_inflow_events |-> <<>>]

ErrorResult == [NoResult EXCEPT !.keys = {"error"}]

\* the whole function: result is the returned dict (keys are its keys), df
\* the caller's frame as the call leaves it, raised an exception leaving it
analyze_btc_inflow(t) ==
    IF DfEmpty(t)
    THEN [raised |-> FALSE, result |-> ErrorResult, df |-> t]
    ELSE LET t1 == IF HasCol(t, "datetime") /\ t.dtstr
                   THEN [SetCol(t, "datetime",
                                [i \in DOMAIN t.rows |-> to_datetime(t.rows[i]["datetime"])])
                           EXCEPT !.dtstr = FALSE]
                   ELSE t
         IN  IF ~HasCol(t1, "datetime")
             THEN \* df['datetime'] at line 114: KeyError
                  [raised |-> TRUE, result |-> NoResult, df |-> t1]
             ELSE LET present == {c \in Range(numeric_columns) : HasCol(t1, c)}
                      top == IF HasCol(t1, "inflow_total")
                             THEN nlargest(t1, TopN, "inflow_total") ELSE <<>>
                  IN  [raised |-> FALSE,
                       result |->
                         [keys |-> {"total_records", "date_range", "summary_stats"}
                                     \cup (IF HasCol(t1, "inflow_total")
                                           THEN {"top_inflow_events"} ELSE {}),
                          total_records |-> Len(t1.rows),
                          start |-> ColMin(t1, "datetime"),
                          end |-> ColMax(t1, "datetime"),
                          summary_stats |-> [c \in present |-> describe(t1, c)],
                          top_inflow_events |->
                            [k \in DOMAIN top |->
                               [row |-> top[k],
                                datetime |-> t1.rows[top[k]]["datetime"],
                                inflow_total |-> t1.rows[top[k]]["inflow_total"]]]],
                       df |-> t1]

-----------------------------------------------------------------------------
(* Visualizer: visualize_data *)

\* the savefig calls of lines 158-184
charts(t) ==
    IF HasCol(t, "inflow_total")
    THEN {"total_inflow_over_time.png"}
           \cup (IF HasCol(t, "inflow_mean_ma7") THEN {"inflow_7day_ma.png"} ELSE {})
           \cup (IF HasCol(t, "inflow_mean") /\ HasCol(t, "inflow_top10")
                 THEN {"mean_vs_top10_inflow.png"} ELSE {})
    ELSE {}

\* the whole function with output_dir = "output", on the files and
\* directories fs, ds that exist when it is called
visualize_data(t, fs, ds) ==
    IF DfEmpty(t)
    THEN [raised |-> FALSE, df |-> t, files |-> fs, dirs |-> ds,
          out |-> <<"No data available for visualization">>]
    ELSE LET t1 == IF HasCol(t, "datetime") /\ t.dtstr
                   THEN [SetCol(t, "datetime",
                                [i \in DOMAIN t.rows |-> to_datetime(t.rows[i]["datetime"])])
                           EXCEPT !.dtstr = FALSE]
                   ELSE IF HasCol(t, "start_time")
                   THEN [SetCol(t, "datetime",
                                [i \in DOMAIN t.rows |-> t.rows[i]["start_time"]])
                           EXCEPT !.dtstr = FALSE]
                   ELSE t
         IN  IF ~HasCol(t1, "datetime")
             THEN \* df.set_index('datetime') at line 156: KeyError
                  [raised |-> TRUE, df |-> t1, files |-> fs,
                   dirs |-> ds \cup {"output"}, out |-> <<>>]
             ELSE [raised |-> FALSE, df |-> t1, files |-> fs \cup charts(t1),
                   dirs |-> ds \cup {"output"}, out |-> <<"Visualizations saved to output">>]

-----------------------------------------------------------------------------
(* Fetcher: fetch_cryptoquant_data *)

\* a typed line: empty, a calendar date (day is its index among the days
\* of the model), or text that is no date
EmptyText == [kind |-> "empty", day |-> 0]

DateText(d) == [kind |-> "date", day |-> d]

BadText == [kind |-> "bad", day |-> 0]

\* the defaults "2020-04-01" and "2024-01-01": the first day of the model
\* and a later one
DefaultStartDay == 0

DefaultEndDay == 1

\* the local time zone: base hours east of UTC, one hour more on the days
\* from..to-1 (daylight saving time)
TimeZones ==
    {[base |-> b, from |-> f, to |-> u] :
        b \in {0, 8}, f \in 0..(MaxDay + 1), u \in 0..(MaxDay + 1)}

UtcOffsetHours(tz, d) == tz.base + (IF tz.from <= d /\ d < tz.to THEN 1 ELSE 0)

\* int(time.mktime(strptime(date).timetuple()) * 1000): local midnight in ms
mktime_ms(d, tz) == (d * 24 - UtcOffsetHours(tz, d)) * 3600 * 1000

\* a plausible slip: the two timestamps in each other's place
request_params_swapped(sd, ed, tz) ==
    [start_time |-> mktime_ms(ed.day, tz), end_time |-> mktime_ms(sd.day, tz)]

\* lines 11-21: the query parameters
request_params(sd, ed, tz) ==
    [start_time |-> mktime_ms(sd.day, tz), end_time |-> mktime_ms(ed.day, tz)]

\* what the network gives back: exc, requests.get raised; otherwise a
\* status and a body, text that is JSON (json_ok) of value body or is not
Statuses == {200, 204, 404, 500}

\* a plausible slip: no except clause, the HTTP error leaves the function
fetch_cryptoquant_data_uncaught(sd, ed, tz, resp) ==
    IF sd.kind # "date" \/ ed.kind # "date"
    THEN [raised |-> TRUE, data |-> None, sent |-> <<>>, out |-> <<>>]
    ELSE LET sent == <<request_params(sd, ed, tz)>>
         IN  IF resp.exc \/ resp.status >= 400
             THEN [raised |-> TRUE, data |-> None, sent |-> sent, out |-> <<"Fetching data">>]
             ELSE IF resp.status = 200 /\ resp.json_ok /\ resp.body.kind = "dict"
             THEN [raised |-> FALSE, data |-> resp.body, sent |-> sent,
                   out |-> <<"Fetching data", "Successfully received data">>]
             ELSE [raised |-> FALSE, data |-> None, sent |-> sent,
                   out |-> <<"Fetching data", "Error">>]

\* the whole function: data is the value returned, sent the requests made,
\* raised an exception leaving the function
fetch_cryptoquant_data(sd, ed, tz, resp) ==
    IF sd.kind # "date" \/ ed.kind # "date"
    THEN \* strptime raises ValueError before the try block
         [raised |-> TRUE, data |-> None, sent |-> <<>>, out |-> <<>>]
    ELSE LET sent == <<request_params(sd, ed, tz)>>
             caught == [raised |-> FALSE, data |-> None, sent |-> sent,
                        out |-> <<"Fetching data", "Exception occurred">>]
         IN  IF resp.exc THEN caught                       \* requests.get raised
             ELSE IF resp.status >= 400 THEN caught        \* raise_for_status
             ELSE IF resp.status = 200
             THEN IF ~resp.json_ok THEN caught             \* response.json() raised
                  ELSE IF resp.body.kind # "dict" THEN caught  \* data.get: AttributeError
                  ELSE [raised |-> FALSE, data |-> resp.body, sent |-> sent,
                        out |-> <<"Fetching data", "Successfully received data">>]
             ELSE [raised |-> FALSE, data |-> None, sent |-> sent,
                   out |-> <<"Fetching data", "Error">>]

-----------------------------------------------------------------------------
(* The inputs the model draws *)

Reverse(s) == [i \in DOMAIN s |-> s[Len(s) + 1 - i]]

KnownColumns == time_columns \o numeric_columns

\* the columns of S in the order of `order`
Ordered(order, S) == LET In(c) == c \in S IN SelectSeq(order, In)

\* the time and the metric value of the i-th record of a response
RowTime(i) == ((i * 2) % 3) * 1500

RowValue(i) == i * 17

Cell(c, i) ==
    IF c = "start_time" THEN RowTime(i)
    ELSE IF c = "datetime" THEN strftime(RowTime(i))
    ELSE IF c = "extra" THEN i
    ELSE RowValue(i)

Record(keys, i) == [k \in DOMAIN keys |-> <<keys[k], Cell(keys[k], i)>>]

\* lists of up to maxRows records that all carry the same keys, at most
\* maxCols of them, in either order
RowSources(maxCols, maxRows) ==
    {[i \in 1..n |-> Record(keys, i)] :
        n \in 0..maxRows,
        keys \in UNION {{Ordered(AllColumns, S), Reverse(Ordered(AllColumns, S))} :
                          S \in {T \in SUBSET Range(AllColumns) : Cardinality(T) <= maxCols}}}

\* the text of the two-object scenario: foo {..,..} bar {..,..}
ScenarioText == <<"x", "{", "s", ",", "t", "}", "x", "{", "s", ",", "t", "}">>

\* the JSON bodies of a response in the pipeline
Bodies(maxCols, maxRows, maxLen) ==
    {DictData(items) : items \in RowSources(maxCols, maxRows)}
      \cup {List(items) : items \in RowSources(maxCols, maxRows)}
      \cup {DictNoData(n) : n \in 0..1}
      \cup {Str(text) : text \in SeqsUpTo(Tokens, maxLen)}

Responses(maxCols, maxRows, maxLen) ==
    {[exc |-> TRUE, status |-> 0, json_ok |-> FALSE, body |-> None]}
      \cup {[exc |-> FALSE, status |-> st, json_ok |-> FALSE, body |-> None] : st \in Statuses}
      \cup {[exc |-> FALSE, status |-> 200, json_ok |-> TRUE, body |-> b] :
              b \in Bodies(maxCols, maxRows, maxLen)}

InputTexts == {EmptyText, BadText} \cup {DateText(d) : d \in 0..MaxDay}

\* what parse_cryptoquant_data is given when it is called on its own
NormalizerInputs(maxRows, maxLen) ==
    {None}
      \cup {DictData(items) : items \in RowSources(Len(AllColumns), maxRows)}
      \cup {List(items) : items \in RowSources(Len(AllColumns), maxRows)}
      \cup {DictNoData(n) : n \in 0..1}
      \cup {Str(text) : text \in SeqsUpTo(Tokens, maxLen) \cup {ScenarioText}}

\* a frame of n rows with the columns S; the inflow_total cells are totals
Table(S, n, totals, text) ==
    [cols  |-> Ordered(KnownColumns, S),
     rows  |-> [i \in 1..n |->
                  [c \in S |->
                     IF c = "inflow_total" THEN totals[i]
                     ELSE IF c = "datetime" /\ ~text THEN RowTime(i)
                     ELSE Cell(c, i)]],
     dtstr |-> text /\ "datetime" \in S]

-----------------------------------------------------------------------------
(* The pipeline: main *)

NoResponse == [exc |-> FALSE, status |-> 0, json_ok |-> FALSE, body |-> None]

Idle ==
    /\ start_date = EmptyText
    /\ response = NoResponse
    /\ end_date = EmptyText
    /\ requests = <<>>
    /\ data = None
    /\ df = EmptyFrame
    /\ analysis = NoResult
    /\ files = {}
    /\ dirs = {}
    /\ stdout = <<>>
    /\ trace = <<>>

Init ==
    /\ pc = "input"
    /\ arg = None
    /\ Idle

\* lines 190-195: an empty line takes the default
MainInput ==
    /\ pc = "input"
    /\ \E sd \in InputTexts, ed \in InputTexts :
          /\ start_date' = IF sd.kind = "empty" THEN DateText(DefaultStartDay) ELSE sd
          /\ end_date' = IF ed.kind = "empty" THEN DateText(DefaultEndDay) ELSE ed
    /\ pc' = "fetch"
    /\ UNCHANGED <<response, requests, data, df, analysis, files, dirs, stdout, trace, arg>>

\* line 198
MainFetch ==
    /\ pc = "fetch"
    /\ \E resp \in Responses(MaxSrcCols, MaxSrcRows, MaxBodyLen), tz \in TimeZones :
          LET r == fetch_cryptoquant_data(start_date, end_date, tz, resp)
          IN  /\ requests' = requests \o r.sent
              /\ stdout' = stdout \o r.out
              /\ data' = r.data
              /\ response' = resp
              /\ pc' = IF r.raised THEN "fetch_raised" ELSE "parse"
    /\ UNCHANGED <<start_date, end_date, df, analysis, files, dirs, trace, arg>>

\* line 201
MainParse ==
    /\ pc = "parse"
    /\ LET r == parse_cryptoquant_data(data)
       IN  /\ df' = r.df
           /\ stdout' = stdout \o r.out
           /\ pc' = IF r.raised THEN "parse_raised" ELSE "branch"
    /\ UNCHANGED <<start_date, end_date, response, requests, data, analysis, files, dirs, trace, arg>>

\* lines 203-207
MainCsv ==
    /\ pc = "branch"
    /\ ~DfEmpty(df)
    /\ files' = files \cup {"csv"}
    /\ stdout' = Append(stdout, "Data saved")
    /\ trace' = Append(trace, "csv")
    /\ pc' = "analyze"
    /\ UNCHANGED <<start_date, end_date, response, requests, data, df, analysis, dirs, arg>>

\* lines 238-239
MainNoData ==
    /\ pc = "branch"
    /\ DfEmpty(df)
    /\ stdout' = Append(stdout, "No data to analyze.")
    /\ pc' = "done"
    /\ UNCHANGED <<start_date, end_date, response, requests, data, df, analysis, files, dirs, trace, arg>>

\* line 210
MainAnalyze ==
    /\ pc = "analyze"
    /\ LET r == analyze_btc_inflow(df)
       IN  /\ df' = r.df
           /\ analysis' = r.result
           /\ pc' = IF r.raised THEN "analyze_raised" ELSE "json"
    /\ trace' = Append(trace, "analyze")
    /\ UNCHANGED <<start_date, end_date, response, requests, data, files, dirs, stdout, arg>>

\* lines 213-216
MainJson ==
    /\ pc = "json"
    /\ files' = files \cup {"json"}
    /\ stdout' = Append(stdout, "Analysis saved")
    /\ trace' = Append(trace, "json")
    /\ pc' = "visualize"
    /\ UNCHANGED <<start_date, end_date, response, requests, data, df, analysis, dirs, arg>>

\* line 218
MainVisualize ==
    /\ pc = "visualize"
    /\ LET r == visualize_data(df, files, dirs)
       IN  /\ df' = r.df
           /\ files' = r.files
           /\ dirs' = r.dirs
           /\ stdout' = stdout \o r.out
           /\ pc' = IF r.raised THEN "visualize_raised" ELSE "summary"
    /\ trace' = Append(trace, "visualize")
    /\ UNCHANGED <<start_date, end_date, response, requests, data, analysis, arg>>

\* lines 220-237
MainSummary ==
    /\ pc = "summary"
    /\ stdout' = Append(stdout, "===== Summary =====")
    /\ trace' = Append(trace, "summary")
    /\ pc' = "done"
    /\ UNCHANGED <<start_date, end_date, response, requests, data, df, analysis, files, dirs, arg>>

Next ==
    \/ MainInput
    \/ MainFetch
    \/ MainParse
    \/ MainCsv
    \/ MainNoData
    \/ MainAnalyze
    \/ MainJson
    \/ MainVisualize
    \/ MainSummary

Spec == Init /\ [][Next]_vars

-----------------------------------------------------------------------------
(* Each stage called on its own *)

InitNormalizer ==
    /\ pc = "call"
    /\ arg \in NormalizerInputs(MaxSrcRows, MaxStrLen)
    /\ Idle

CallNormalizer ==
    /\ pc = "call"
    /\ LET r == parse_cryptoquant_data(arg)
       IN  /\ df' = r.df
           /\ stdout' = stdout \o r.out
           /\ pc' = IF r.raised THEN "raised" ELSE "returned"
    /\ UNCHANGED <<start_date, end_date, response, requests, data, analysis, files, dirs, trace, arg>>

SpecNormalizer == InitNormalizer /\ [][CallNormalizer]_vars

\* any frame of up to MaxRows rows over the known columns; the
\* inflow_total cells are any values of 1..MaxVal
InitAnalyzer ==
    /\ pc = "call"
    /\ \E S \in SUBSET Range(KnownColumns), n \in 0..MaxRows, text \in BOOLEAN :
          \E totals \in [1..n -> 1..MaxVal] :
             arg = Table(S, n, totals, text)
    /\ Idle

CallAnalyzer ==
    /\ pc = "call"
    /\ LET r == analyze_btc_inflow(arg)
       IN  /\ df' = r.df
           /\ analysis' = r.result
           /\ pc' = IF r.raised THEN "raised" ELSE "returned"
    /\ UNCHANGED <<start_date, end_date, response, requests, data, files, dirs, stdout, trace, arg>>

SpecAnalyzer == InitAnalyzer /\ [][CallAnalyzer]_vars

\* any frame of up to MaxSrcRows rows over the known columns
InitVisualizer ==
    /\ pc = "call"
    /\ \E S \in SUBSET Range(KnownColumns), n \in 0..MaxSrcRows, text \in BOOLEAN :
          arg = Table(S, n, [i \in 1..n |-> RowValue(i)], text)
    /\ Idle

CallVisualizer ==
    /\ pc = "call"
    /\ LET r == visualize_data(arg, files, dirs)
       IN  /\ df' = r.df
           /\ files' = r.files
           /\ dirs' = r.dirs
           /\ stdout' = stdout \o r.out
           /\ pc' = IF r.raised THEN "raised" ELSE "returned"
    /\ UNCHANGED <<start_date, end_date, response, requests, data, analysis, trace, arg>>

SpecVisualizer == InitVisualizer /\ [][CallVisualizer]_vars

-----------------------------------------------------------------------------
(* Properties *)

\* the Fetcher has been called and has ended, by a return or an exception
Fetched == pc \notin {"input", "fetch"}

WellFormedDates == start_date.kind = "date" /\ end_date.kind = "date"

\* the Normalizer has returned to main
Parsed == pc \notin {"input", "fetch", "fetch_raised", "parse", "parse_raised"}

\* a frame with no row or no column, written out
IsEmptyTable(t) == Len(t.rows) = 0 \/ Len(t.cols) = 0

\* C1: when the dates are well formed and the HTTP GET ends in a network
\* exception or a status other than 200, the Fetcher returns None, no
\* exception leaves it, and exactly one request was made.
C1_FailureReturnsNone ==
    (Fetched /\ WellFormedDates /\ (response.exc \/ response.status # 200))
        => /\ pc # "fetch_raised"
           /\ data = None
           /\ Len(requests) = 1

\* a 404 answer has been turned into None and main goes on to the Normalizer
C1_Witness ==
    /\ pc = "parse"
    /\ ~response.exc
    /\ response.status = 404
    /\ data = None
    /\ Len(requests) = 1

\* C2: when the response has status 200 and a JSON body of one of the
\* shapes of RawResponse, the Fetcher returns that parsed body.
C2_SuccessReturnsBody ==
    (Fetched /\ WellFormedDates /\ ~response.exc /\ response.status = 200 /\ response.json_ok)
        => /\ pc # "fetch_raised"
           /\ data = response.body

\* what does hold: a mapping body is returned, any other body gives None
C2_MappingReturnedOthersNone ==
    (Fetched /\ WellFormedDates /\ ~response.exc /\ response.status = 200 /\ response.json_ok)
        => /\ pc # "fetch_raised"
           /\ data = IF response.body.kind = "dict" THEN response.body ELSE None

\* C3: when the normalized table is empty, as it is whenever the Fetcher
\* returned None, the run writes no file and creates no directory, ends
\* normally, and ends having printed "No data to analyze.".
C3_EmptyTableNoWrites ==
    /\ (Parsed /\ data = None) => IsEmptyTable(df)
    /\ (Parsed /\ IsEmptyTable(df))
          => /\ files = {}
             /\ dirs = {}
             /\ trace = <<>>
             /\ pc \in {"branch", "done"}
             /\ pc = "done" => stdout[Len(stdout)] = "No data to analyze."

\* a run that got a 500 answer has ended with the message and no file
C3_Witness ==
    /\ pc = "done"
    /\ response.status = 500
    /\ data = None
    /\ IsEmptyTable(df)
    /\ stdout[Len(stdout)] = "No data to analyze."
    /\ files = {}

Ended == pc \in {"done", "fetch_raised", "parse_raised", "analyze_raised", "visualize_raised"}

\* C4: when the normalized table is not empty, the run makes the CSV write,
\* the Analyzer call, the JSON write, the Visualizer call and the summary
\* print, in this order and once each, and so reaches the summary print.
C4_NonEmptyRunsAllSteps ==
    (Parsed /\ ~IsEmptyTable(df) /\ Ended)
        => /\ pc = "done"
           /\ trace = <<"csv", "analyze", "json", "visualize", "summary">>

\* what does hold: the steps taken are a prefix of that order, and the
\* whole of it when the run ends normally
C4_StepsArePrefix ==
    (Parsed /\ ~IsEmptyTable(df))
        => /\ \E n \in 0..5 :
                trace = SubSeq(<<"csv", "analyze", "json", "visualize", "summary">>, 1, n)
           /\ pc = "done" => Len(trace) = 5

\* C5: the Analyzer returns exactly {"error": ...} for an empty table and,
\* for every non-empty table, a result holding total_records, date_range
\* and summary_stats.
C5_AnalyzerResultShape ==
    (pc # "call")
        => /\ pc = "returned"
           /\ IF IsEmptyTable(arg)
              THEN analysis = ErrorResult
              ELSE /\ {"total_records", "date_range", "summary_stats"} \subseteq analysis.keys
                   /\ analysis.total_records = Len(arg.rows)

\* what does hold: that shape whenever the table has a datetime column
C5_ShapeWithDatetime ==
    (pc # "call" /\ (IsEmptyTable(arg) \/ "datetime" \in Range(arg.cols)))
        => /\ pc = "returned"
           /\ IF IsEmptyTable(arg)
              THEN analysis = ErrorResult
              ELSE /\ {"total_records", "date_range", "summary_stats"} \subseteq analysis.keys
                   /\ analysis.total_records = Len(arg.rows)

\* the inflow_total cell of row i of the table the Analyzer was given
Total(i) == arg.rows[i]["inflow_total"]

\* the top-events list is the one the claim describes: its length, its
\* order, its choice of rows, and the place of equal values
TopEventsAsClaimed ==
    LET top == analysis.top_inflow_events
        n == Len(arg.rows)
        chosen == {top[k].row : k \in DOMAIN top}
    IN  /\ "top_inflow_events" \in analysis.keys
        /\ Len(top) = IF n < 5 THEN n ELSE 5
        /\ \A k \in DOMAIN top : top[k].row \in 1..n /\ top[k].inflow_total = Total(top[k].row)
        /\ \A k \in DOMAIN top : \A l \in DOMAIN top : k # l => top[k].row # top[l].row
        /\ \A k \in 2..Len(top) : top[k].inflow_total <= top[k - 1].inflow_total
        /\ \A i \in chosen : \A j \in (1..n) \ chosen : Total(j) <= Total(i)
        /\ \A k \in 2..Len(top) :
              top[k].inflow_total = top[k - 1].inflow_total => top[k - 1].row < top[k].row
        /\ \A i \in chosen : \A j \in (1..n) \ chosen : Total(j) = Total(i) => i < j

\* C6: for every non-empty table with an inflow_total column the Analyzer
\* gives a top-events list of min(5, rows) entries, the rows of largest
\* inflow_total, in descending order, equal values in original row order
\* both in the list and at the cut-off.
C6_TopEvents ==
    (pc # "call" /\ ~IsEmptyTable(arg) /\ "inflow_total" \in Range(arg.cols))
        => /\ pc = "returned"
           /\ TopEventsAsClaimed

\* what does hold: that list whenever the table also has a datetime column
C6_TopEventsWithDatetime ==
    (pc # "call" /\ ~IsEmptyTable(arg) /\ "inflow_total" \in Range(arg.cols)
       /\ "datetime" \in Range(arg.cols))
        => /\ pc = "returned"
           /\ TopEventsAsClaimed

\* the image files the claim gives a table with the columns cs
ChartsAsClaimed(cs) ==
    {f \in {"total_inflow_over_time.png", "inflow_7day_ma.png", "mean_vs_top10_inflow.png"} :
        \/ f = "total_inflow_over_time.png" /\ "inflow_total" \in cs
        \/ f = "inflow_7day_ma.png" /\ {"inflow_total", "inflow_mean_ma7"} \subseteq cs
        \/ f = "mean_vs_top10_inflow.png"
             /\ {"inflow_total", "inflow_mean", "inflow_top10"} \subseteq cs}

\* C7: for a non-empty table the Visualizer writes exactly the image files
\* its columns call for; for an empty table it writes nothing and creates
\* no directory.
C7_ChartsByColumns ==
    (pc # "call")
        => IF IsEmptyTable(arg)
           THEN files = {} /\ dirs = {}
           ELSE files = ChartsAsClaimed(Range(arg.cols))

\* what does hold: those files whenever the table has a datetime or a
\* start_time column
C7_ChartsWithTimeColumn ==
    (pc # "call" /\ (IsEmptyTable(arg) \/ Range(arg.cols) \cap {"datetime", "start_time"} # {}))
        => /\ pc = "returned"
           /\ IF IsEmptyTable(arg)
              THEN files = {} /\ dirs = {}
              ELSE files = ChartsAsClaimed(Range(arg.cols)) /\ dirs = {"output"}

\* C8: every request the Fetcher sends has end_time >= start_time.
C8_EndNotBeforeStart ==
    \A i \in DOMAIN requests : requests[i].end_time >= requests[i].start_time

\* C8 as amended: every request the Fetcher sends for an end date that is
\* not earlier than the start date has end_time >= start_time, and
\* end_time > start_time when the end date is later.
C8_OrderedDatesOrderedTimes ==
    \A i \in DOMAIN requests :
        /\ start_date.day <= end_date.day => requests[i].end_time >= requests[i].start_time
        /\ start_date.day < end_date.day => requests[i].end_time > requests[i].start_time

\* a request for a later end date was sent from a zone whose clock went
\* back an hour in between: the two timestamps are 25 hours apart
C8_Witness ==
    /\ Len(requests) = 1
    /\ start_date.day < end_date.day
    /\ requests[1].end_time - requests[1].start_time = 25 * 3600 * 1000

\* positions i < j of the text hold a brace-delimited span with no brace inside
IsSpan(text, i, j) ==
    /\ i < j
    /\ text[i] = "{"
    /\ text[j] = "}"
    /\ \A k \in (i + 1)..(j - 1) : ~IsBrace(text[k])

\* the span is a JSON object: nothing, or members separated by commas
IsJsonObject(text, i, j) ==
    LET n == j - i - 1
    IN  \/ n = 0
        \/ /\ n % 2 = 1
           /\ \A k \in 1..n : IF k % 2 = 1 THEN IsMember(text[i + k]) ELSE text[i + k] = ","

Spans(text) == {m \in (DOMAIN text) \X (DOMAIN text) : IsSpan(text, m[1], m[2])}

ParseableSpans(text) == {m \in Spans(text) : IsJsonObject(text, m[1], m[2])}

\* the k-th parseable span in order of occurrence
KthParseable(text, k) ==
    CHOOSE m \in ParseableSpans(text) :
        Cardinality({o \in ParseableSpans(text) : o[1] < m[1]}) = k - 1

\* the cell of column c that the span m gives: the value of its last member
\* with that key, read as the Normalizer reads the column
SpanCell(text, m, c) ==
    LET ps == {p \in (m[1] + 1)..(m[2] - 1) : IsMember(text[p]) /\ MemberKey(text[p]) = c}
        v == IF ps = {} THEN NA ELSE MemberValue(text[MaxOf(ps)], MaxOf(ps))
        st == {p \in (m[1] + 1)..(m[2] - 1) : text[p] = "s"}
    IN  IF c = "inflow_total" THEN round4(v)
        ELSE IF c = "datetime"
        THEN (IF st = {} THEN NA ELSE strftime(MemberValue("s", MaxOf(st))))
        ELSE v

\* C9: for a string input the table has one row per non-nested
\* brace-delimited span that parses as JSON, in order of occurrence; a span
\* that does not parse is skipped and the call goes on; the table is the
\* empty table when no span parses; the two-object scenario gives 2 rows.
C9_OneRowPerParseableSpan ==
    (pc # "call" /\ arg.kind = "str")
        => LET good == ParseableSpans(arg.text)
           IN  /\ pc = "returned"
               /\ Len(df.rows) = Cardinality(good)
               /\ good = {} => df = EmptyFrame
               /\ \A k \in DOMAIN df.rows : \A c \in Range(df.cols) :
                     df.rows[k][c] = SpanCell(arg.text, KthParseable(arg.text, k), c)
               /\ arg.text = ScenarioText => Len(df.rows) = 2

\* a span that does not parse came before one that does, and the call
\* returned the row of the second
C9_Witness ==
    /\ pc = "returned"
    /\ arg.kind = "str"
    /\ \E m \in Spans(arg.text) \ ParseableSpans(arg.text) :
          \E o \in ParseableSpans(arg.text) : m[1] < o[1]
    /\ Len(df.rows) = 1
    /\ df.cols = <<"inflow_total">>

\* the row source of a Normalizer input: its records' key sets, in order
SourceKeys(input) ==
    IF input.kind = "str"
    THEN [k \in 1..Cardinality(ParseableSpans(input.text)) |->
            LET m == KthParseable(input.text, k)
            IN  {MemberKey(input.text[p]) :
                   p \in {q \in (m[1] + 1)..(m[2] - 1) : IsMember(input.text[q])}}]
    ELSE [k \in DOMAIN input.items |->
            {input.items[k][j][1] : j \in DOMAIN input.items[k]}]

IsRowSourceInput(input) ==
    input.kind \in {"str", "list"} \/ (input.kind = "dict" /\ input.hasData)

\* the cell the i-th record of a list of records gives column c
RecordCell(item, c) ==
    IF c = "datetime" /\ ~HasKey(item, "datetime")
    THEN (IF HasKey(item, "start_time") THEN strftime(Get(item, "start_time")) ELSE NA)
    ELSE IF ~HasKey(item, c) THEN NA
    ELSE IF c \in Range(numeric_columns) THEN round4(Get(item, c))
    ELSE Get(item, c)

\* C10: for a non-empty row source the output columns are the members of
\* <<datetime, start_time, inflow_mean, inflow_mean_ma7, inflow_top10,
\* inflow_total>> that are available, datetime being available when it is
\* supplied or start_time is, in that order; no other column is kept, none
\* is added, and the rows keep the order of the input.
C10_ColumnsAndRowOrder ==
    (pc # "call" /\ IsRowSourceInput(arg) /\ Len(SourceKeys(arg)) > 0)
        => LET supplied == UNION Range(SourceKeys(arg))
               Available(c) == c \in supplied \/ (c = "datetime" /\ "start_time" \in supplied)
           IN  /\ pc = "returned"
               /\ df.cols = SelectSeq(<<"datetime", "start_time", "inflow_mean",
                                        "inflow_mean_ma7", "inflow_top10", "inflow_total">>,
                                      Available)
               /\ Len(df.rows) = Len(SourceKeys(arg))
               /\ arg.kind # "str" =>
                     \A i \in DOMAIN df.rows : \A c \in Range(df.cols) :
                        df.rows[i][c] = RecordCell(arg.items[i], c)

\* two records whose keys came as extra, inflow_total, inflow_mean,
\* start_time gave the columns datetime, start_time, inflow_mean,
\* inflow_total: datetime derived, extra dropped, the rest reordered
C10_Witness ==
    /\ pc = "returned"
    /\ arg.kind = "list"
    /\ Len(arg.items) = 2
    /\ [j \in DOMAIN arg.items[1] |-> arg.items[1][j][1]]
          = <<"extra", "inflow_total", "inflow_mean", "start_time">>
    /\ df.cols = <<"datetime", "start_time", "inflow_mean", "inflow_total">>
    /\ df.rows[1]["start_time"] # df.rows[2]["start_time"]

====
